---------------------------- MODULE Spec2Model ----------------------------
(***************************************************************************)
(* Rayforge Sync (src/Rayforge-Sync.py): the server manifest games.json,   *)
(* the per-game server directories, the local save directories and the     *)
(* local backups, as they are changed by WelcomeDialog.setup_new_server,   *)
(* MainWindow.add_new_game, load_games_from_json, set_local_path,          *)
(* upload_save and download_save.                                          *)
(*                                                                         *)
(* Server setup and registration are modelled one filesystem step at a     *)
(* time (pc), because the process can stop, and another client can act,    *)
(* between two steps.  Upload and download are one action each, with the   *)
(* step that raises as an input.                                           *)
(*                                                                         *)
(* Spec      from an empty server directory: setup, registrations, process *)
(*           start and stop, set_local_path, with failing steps            *)
(* SpecSync  from a server with one registered game: uploads and downloads *)
(*           with failing steps, the game writing its saves                *)
(* SpecLoad  from a server whose games.json holds any sample content: the  *)
(*           window loading the list                                       *)
(***************************************************************************)
EXTENDS Integers, Sequences, FiniteSets, TLC

\* ------------------------------------------------------------------ bounds
MaxGames == 2     \* ids that uuid4 hands out in a run
MaxTime == 2      \* seconds of the wall clock that a run covers
MaxSyncs == 2     \* uploads and downloads that get past the confirmation

Ids == 1..MaxGames
Times == 1..MaxTime
Clients == {"pc1", "pc2"}      \* machines that share the server root
ThisPC == "pc1"                \* the machine whose local state is modelled

\* ------------------------------------------------------- names and lower()
Names == {"Celeste", "celeste", "Hades"}

\* str.lower() on the names above
Lower(n) ==
    CASE n = "Celeste" -> "celeste"
      [] n = "celeste" -> "celeste"
      [] n = "Hades" -> "hades"
      [] OTHER -> n

\* ------------------------------------------------------ directory contents
FileNames == {"a.txt", "b.txt"}
Contents == {"x", "y"}
NoFile == "-"
Dir == [FileNames -> Contents \cup {NoFile}]
EmptyDir == [f \in FileNames |-> NoFile]
IsEmpty(d) == \A f \in FileNames : d[f] = NoFile

\* the save states the game itself leaves in its local save directory
SaveStates ==
    { [f \in FileNames |-> IF f = "a.txt" THEN "x" ELSE NoFile],
      [f \in FileNames |-> "y"] }

\* CopyTree that returns without having copied anything
CopyTree_CopiesNothing(src, dst, done) == dst

\* shutil.copytree(src, dst, dirs_exist_ok=True) that copied the files in
\* `done` before it returned or raised: files of src overwrite, others stay
CopyTree(src, dst, done) ==
    [f \in FileNames |-> IF f \in done /\ src[f] # NoFile THEN src[f] ELSE dst[f]]

\* ------------------------------------------------------- manifest contents
\* A file holding JSON text.  kind: absent (no file), garbage (not valid
\* JSON, e.g. an empty or partly written file), nonobject (root is not an
\* object), nogames (object without "games"), notlist ("games" is not a
\* list), catalog ({"games": [...]}).
NoGames == << >>
Absent == [kind |-> "absent", games |-> NoGames]
Garbage == [kind |-> "garbage", games |-> NoGames]
Catalog(gs) == [kind |-> "catalog", games |-> gs]

\* one element of the games list: a dict with or without the keys, or a
\* value that is not a dict
Entry(i, n) == [dict |-> TRUE, hasId |-> TRUE, id |-> i, hasName |-> TRUE, name |-> n]

IsJson(file) == file.kind \in {"nonobject", "nogames", "notlist", "catalog"}


\* ------------------------------------------------------------------- state
VARIABLES
    manifest,          \* <server_root>/games.json
    tmp,               \* <server_root>/games.json.tmp
    gdir,              \* which of <id>/, <id>/save_data, <id>/backup exist
    save,              \* files of <id>/save_data
    sbackup,           \* <id>/backup/<timestamp>/
    local,             \* files of the local save directory of a game
    lbackup,           \* <local_backup_root>/<id>/<timestamp>/
    local_game_paths,  \* ids that have a local path on this PC (QSettings)
    game_list,         \* the entries game_list_widget shows on this PC
    show_warning,      \* QSettings show_overwrite_warning
    now,               \* the wall clock, in seconds
    nextId,            \* ids handed out so far, plus one
    pc,                \* where each client's process is
    reg,               \* the locals of a running add_new_game, per client
    result,            \* the message boxes of the last handler, per client
    nsync,             \* syncs that got past the confirmation
    server_path        \* the clients whose QSettings hold the server path

vars == << manifest, tmp, gdir, save, sbackup, local, lbackup, local_game_paths,
           game_list, show_warning, now, nextId, pc, reg, result, nsync,
           server_path >>

serverFs == << manifest, tmp, gdir, save, sbackup >>
localFs == << local, lbackup >>
settings == << local_game_paths, show_warning >>

NoDirs == [root |-> FALSE, save |-> FALSE, backup |-> FALSE]
AllDirs == [root |-> TRUE, save |-> TRUE, backup |-> TRUE]
\* backup/<timestamp>: the files directly under it, and those of a
\* save_data directory that shutil.move put inside it
NoSnap == [ex |-> FALSE, files |-> EmptyDir, nested |-> FALSE, nfiles |-> EmptyDir]
NoLSnap == [ex |-> FALSE, files |-> EmptyDir]

\* id, name, server_data and the message boxes shown so far; rmtrees counts
\* the calls of shutil.rmtree
NoReg == [id |-> 0, name |-> "", data |-> Absent, msgs |-> << >>, rmtrees |-> 0]
\* the handler that returned last: its message boxes in order, the game it
\* was about (for a registration its name too), whether the overwrite warning
\* was shown, the rmtree calls made
NoResult ==
    [op |-> "none", msgs |-> << >>, game |-> 0, name |-> "", prompted |-> FALSE,
     rmtrees |-> 0]
Result(op, msgs, g, prompted) ==
    [op |-> op, msgs |-> msgs, game |-> g, name |-> "", prompted |-> prompted,
     rmtrees |-> 0]

\* the state before any server exists: an empty server directory, no settings
Init ==
    /\ manifest = Absent
    /\ tmp = Absent
    /\ gdir = [i \in Ids |-> NoDirs]
    /\ save = [i \in Ids |-> EmptyDir]
    /\ sbackup = [i \in Ids |-> [t \in Times |-> NoSnap]]
    /\ local = [i \in Ids |-> EmptyDir]
    /\ lbackup = [i \in Ids |-> [t \in Times |-> NoLSnap]]
    /\ local_game_paths = {}
    /\ game_list = << >>
    /\ show_warning = TRUE
    /\ now = 1
    /\ nextId = 1
    /\ pc = [c \in Clients |-> "welcome"]
    /\ reg = [c \in Clients |-> NoReg]
    /\ result = [c \in Clients |-> NoResult]
    /\ nsync = 0
    /\ server_path = {}

\* ------------------------------------------------- load_games_from_json
\* what opening and parsing games.json gives: the message box of the except
\* clause that catches it, or "ok".  `fault` is what the filesystem does to
\* the open: none, permission (PermissionError) or io (another OSError)
LoadOutcome(file, fault) ==
    IF fault # "none" \/ file.kind = "absent" THEN "could_not_read"
    ELSE IF file.kind = "garbage" THEN "corrupted"
    ELSE IF file.kind \in {"nonobject", "nogames", "notlist"} THEN "invalid_format"
    ELSE "ok"

\* the loop over games_list: entries that are not dicts or lack id or name
\* are skipped, the others listed in order
WellFormed(e) == e.dict /\ e.hasId /\ e.hasName
ListedEntries(file, fault) ==
    IF LoadOutcome(file, fault) = "ok"
    THEN SelectSeq(file.games, WellFormed)
    ELSE << >>

ListedIds == { game_list[k].id : k \in DOMAIN game_list }

ReadFaults == {"none", "permission", "io"}

\* what a handler leaves in game_list_widget: only this PC's list is modelled
Reloaded(c, entries) == IF c = ThisPC THEN entries ELSE game_list

\* ------------------------------------------- process start, stop and crash
\* main(): with a saved server path and games.json a file, the main window;
\* with a saved path and no file, the path is forgotten and the process
\* exits; without a saved path, the welcome dialog
Launch(c) ==
    /\ pc[c] = "stopped"
    /\ IF c \in server_path
       THEN IF manifest.kind # "absent"
            THEN /\ pc' = [pc EXCEPT ![c] = "starting"]
                 /\ UNCHANGED server_path
            ELSE /\ server_path' = server_path \ {c}
                 /\ UNCHANGED pc
       ELSE /\ pc' = [pc EXCEPT ![c] = "welcome"]
            /\ UNCHANGED server_path
    /\ UNCHANGED << serverFs, localFs, settings, game_list, now, nextId, reg,
                    result, nsync >>

\* MainWindow.__init__: load_games_from_json fills the list
MainInit(c, fault) ==
    /\ pc[c] = "starting"
    /\ pc' = [pc EXCEPT ![c] = "idle"]
    /\ game_list' = Reloaded(c, ListedEntries(manifest, fault))
    /\ result' = [result EXCEPT ![c] =
                    Result("load", << LoadOutcome(manifest, fault) >>, 0, FALSE)]
    /\ UNCHANGED << serverFs, localFs, settings, now, nextId, reg, nsync,
                    server_path >>

\* the user closes the window
Quit(c) ==
    /\ pc[c] \in {"idle", "welcome"}
    /\ pc' = [pc EXCEPT ![c] = "stopped"]
    /\ game_list' = Reloaded(c, << >>)
    /\ UNCHANGED << serverFs, localFs, settings, now, nextId, reg, result,
                    nsync, server_path >>

Running == {"setup_dump", "mk_save", "mk_backup", "read", "open_tmp", "dump_tmp",
            "rename", "rollback_dup", "rollback"}

\* the process stops between two filesystem steps of setup or registration
Crash(c) ==
    /\ pc[c] \in Running
    /\ pc' = [pc EXCEPT ![c] = "stopped"]
    /\ reg' = [reg EXCEPT ![c] = NoReg]
    /\ game_list' = Reloaded(c, << >>)
    /\ result' = [result EXCEPT ![c] = NoResult]
    /\ UNCHANGED << serverFs, localFs, settings, now, nextId, nsync, server_path >>

\* ------------------------------------------- WelcomeDialog.setup_new_server
\* games.json is already there: a warning, nothing written
SetupExists(c) ==
    /\ pc[c] = "welcome"
    /\ manifest.kind # "absent"
    /\ result' = [result EXCEPT ![c] = Result("setup", << "server_exists" >>, 0, FALSE)]
    /\ UNCHANGED << serverFs, localFs, settings, game_list, now, nextId, pc, reg,
                    nsync, server_path >>

\* open(games_json_path, 'w'): creates the file, empty, or raises
SetupOpen(c, fault) ==
    /\ pc[c] = "welcome"
    /\ manifest.kind = "absent"
    /\ IF fault = "none"
       THEN /\ manifest' = Garbage
            /\ pc' = [pc EXCEPT ![c] = "setup_dump"]
            /\ UNCHANGED result
       ELSE /\ result' = [result EXCEPT ![c] =
                    Result("setup", << IF fault = "permission" THEN "permission_error"
                                       ELSE "error" >>, 0, FALSE)]
            /\ UNCHANGED << manifest, pc >>
    /\ UNCHANGED << tmp, gdir, save, sbackup, localFs, settings, game_list, now,
                    nextId, reg, nsync, server_path >>

\* json.dump(default_data, f) and the close: the file holds {"games": []},
\* the server path is saved and the dialog accepted; or the write raises and
\* the file stays as far as it was written
SetupDump(c, fault) ==
    /\ pc[c] = "setup_dump"
    /\ IF fault = "none"
       THEN /\ manifest' = Catalog(NoGames)
            /\ server_path' = server_path \cup {c}
            /\ pc' = [pc EXCEPT ![c] = "starting"]
            /\ result' = [result EXCEPT ![c] = Result("setup", << "success" >>, 0, FALSE)]
       ELSE /\ result' = [result EXCEPT ![c] =
                    Result("setup", << IF fault = "permission" THEN "permission_error"
                                       ELSE "error" >>, 0, FALSE)]
            /\ pc' = [pc EXCEPT ![c] = "welcome"]
            /\ UNCHANGED << manifest, server_path >>
    /\ UNCHANGED << tmp, gdir, save, sbackup, localFs, settings, game_list, now,
                    nextId, reg, nsync >>

\* WelcomeDialog.connect_to_existing_server: games.json must be a file that
\* json.load accepts
ConnectExisting(c, fault) ==
    /\ pc[c] = "welcome"
    /\ IF manifest.kind = "absent"
       THEN \* QMessageBox.warning is called without its text argument: the
            \* TypeError it raises is caught by `except Exception`
            /\ result' = [result EXCEPT ![c] = Result("connect", << "file_corrupted" >>, 0, FALSE)]
            /\ UNCHANGED << pc, server_path >>
       ELSE IF fault = "permission"
       THEN /\ result' = [result EXCEPT ![c] = Result("connect", << "permission_error" >>, 0, FALSE)]
            /\ UNCHANGED << pc, server_path >>
       ELSE IF fault = "io" \/ ~IsJson(manifest)
       THEN /\ result' = [result EXCEPT ![c] = Result("connect", << "file_corrupted" >>, 0, FALSE)]
            /\ UNCHANGED << pc, server_path >>
       ELSE /\ result' = [result EXCEPT ![c] = Result("connect", << "success" >>, 0, FALSE)]
            /\ server_path' = server_path \cup {c}
            /\ pc' = [pc EXCEPT ![c] = "starting"]
    /\ UNCHANGED << serverFs, localFs, settings, game_list, now, nextId, reg, nsync >>

\* ------------------------------------------------- MainWindow.add_new_game
Faults == {"none", "fail"}

\* what a failed call can leave of <id>/ and its two directories
MkSaveFailStates == { NoDirs, [root |-> TRUE, save |-> FALSE, backup |-> FALSE] }
RmtreeFailStates(d) ==
    { e \in [root : {TRUE}, save : BOOLEAN, backup : BOOLEAN] :
        /\ e.save => d.save
        /\ e.backup => d.backup }

\* the handler returns: its message boxes become the visible result
RegReturn(c, msgs, rmtrees) ==
    /\ pc' = [pc EXCEPT ![c] = "idle"]
    /\ result' = [result EXCEPT ![c] =
                    [op |-> "register", msgs |-> msgs, game |-> reg[c].id,
                     name |-> reg[c].name, prompted |-> FALSE, rmtrees |-> rmtrees]]
    /\ reg' = [reg EXCEPT ![c] = NoReg]

\* the dialog is accepted with a name; uuid.uuid4() gives an id no game has
RegStart(c, name) ==
    /\ pc[c] = "idle"
    /\ nextId <= MaxGames
    /\ reg' = [reg EXCEPT ![c] = [NoReg EXCEPT !.id = nextId, !.name = name]]
    /\ nextId' = nextId + 1
    /\ pc' = [pc EXCEPT ![c] = "mk_save"]
    /\ UNCHANGED << serverFs, localFs, settings, game_list, now, result, nsync,
                    server_path >>

\* (game_server_dir / "save_data").mkdir(parents=True, exist_ok=True)
RegMkSave(c, fault) ==
    /\ pc[c] = "mk_save"
    /\ IF fault = "none"
       THEN /\ gdir' = [gdir EXCEPT ![reg[c].id].root = TRUE, ![reg[c].id].save = TRUE]
            /\ pc' = [pc EXCEPT ![c] = "mk_backup"]
            /\ UNCHANGED << reg, result >>
       ELSE /\ \E d \in MkSaveFailStates : gdir' = [gdir EXCEPT ![reg[c].id] = d]
            /\ RegReturn(c, << "mkdir_failed" >>, 0)
    /\ UNCHANGED << manifest, tmp, save, sbackup, localFs, settings, game_list, now,
                    nextId, nsync, server_path >>

\* (game_server_dir / "backup").mkdir(parents=True, exist_ok=True); when it
\* raises the handler returns, and nothing removes save_data
RegMkBackup(c, fault) ==
    /\ pc[c] = "mk_backup"
    /\ IF fault = "none"
       THEN /\ gdir' = [gdir EXCEPT ![reg[c].id].backup = TRUE]
            /\ pc' = [pc EXCEPT ![c] = "read"]
            /\ UNCHANGED << reg, result >>
       ELSE /\ RegReturn(c, << "mkdir_failed" >>, 0)
            /\ UNCHANGED gdir
    /\ UNCHANGED << manifest, tmp, save, sbackup, localFs, settings, game_list, now,
                    nextId, nsync, server_path >>

\* json.load, the list of lower-cased names and the append raise unless the
\* root is an object whose "games" is a list of dicts that all have a name
RegReadRaises(file, fault) ==
    \/ fault # "none"
    \/ file.kind # "catalog"
    \/ \E k \in DOMAIN file.games : ~file.games[k].dict \/ ~file.games[k].hasName

ExistingNames(file) == { Lower(file.games[k].name) : k \in DOMAIN file.games }

\* IsDuplicate that compares the names as written
IsDuplicate_CaseSensitive(name, file) ==
    name \in { file.games[k].name : k \in DOMAIN file.games }

\* if game_name.lower() in existing_names
IsDuplicate(name, file) == Lower(name) \in ExistingNames(file)

\* the read of games.json, the duplicate check and the append
RegRead(c, fault) ==
    /\ pc[c] = "read"
    /\ IF RegReadRaises(manifest, fault)
       THEN /\ pc' = [pc EXCEPT ![c] = "rollback"]
            /\ reg' = [reg EXCEPT ![c].msgs = Append(@, "update_failed")]
       ELSE IF IsDuplicate(reg[c].name, manifest)
       THEN /\ pc' = [pc EXCEPT ![c] = "rollback_dup"]
            /\ reg' = [reg EXCEPT ![c].msgs = Append(@, "duplicate")]
       ELSE /\ pc' = [pc EXCEPT ![c] = "open_tmp"]
            /\ reg' = [reg EXCEPT ![c].data =
                        Catalog(Append(manifest.games, Entry(reg[c].id, reg[c].name)))]
    /\ UNCHANGED << serverFs, localFs, settings, game_list, now, nextId, result,
                    nsync, server_path >>

\* open(games_json_temp_path, 'w'): the temp file exists, empty
RegOpenTmp(c, fault) ==
    /\ pc[c] = "open_tmp"
    /\ IF fault = "none"
       THEN /\ tmp' = Garbage
            /\ pc' = [pc EXCEPT ![c] = "dump_tmp"]
            /\ UNCHANGED reg
       ELSE /\ pc' = [pc EXCEPT ![c] = "rollback"]
            /\ reg' = [reg EXCEPT ![c].msgs = Append(@, "update_failed")]
            /\ UNCHANGED tmp
    /\ UNCHANGED << manifest, gdir, save, sbackup, localFs, settings, game_list, now,
                    nextId, result, nsync, server_path >>

\* what a file holds after `data` was written from offset 0 into it: the
\* data when the file was empty; when another client has written into the
\* same file since it was opened, the data or a mix of the two texts
DumpOutcomes(file, data) == IF file.kind = "garbage" THEN {data} ELSE {data, Garbage}

\* json.dump(server_data, f, indent=4) and the close.  The text goes into the
\* file that was opened: games.json.tmp, or, when another client has renamed
\* that file meanwhile, games.json
RegDumpTmp(c, fault) ==
    /\ pc[c] = "dump_tmp"
    /\ IF fault = "none"
       THEN /\ IF tmp.kind = "absent"
               THEN /\ manifest' \in DumpOutcomes(manifest, reg[c].data)
                    /\ UNCHANGED tmp
               ELSE /\ tmp' \in DumpOutcomes(tmp, reg[c].data)
                    /\ UNCHANGED manifest
            /\ pc' = [pc EXCEPT ![c] = "rename"]
            /\ UNCHANGED reg
       ELSE /\ pc' = [pc EXCEPT ![c] = "rollback"]
            /\ reg' = [reg EXCEPT ![c].msgs = Append(@, "update_failed")]
            /\ UNCHANGED << manifest, tmp >>
    /\ UNCHANGED << gdir, save, sbackup, localFs, settings, game_list, now,
                    nextId, result, nsync, server_path >>

\* RegRename that raises when games.json is not as this client read it
RegRename_DetectsConflict(c, fault) ==
    /\ pc[c] = "rename"
    /\ IF /\ fault = "none" /\ tmp.kind # "absent"
          /\ Catalog(Append(manifest.games, Entry(reg[c].id, reg[c].name))) = reg[c].data
       THEN /\ manifest' = tmp
            /\ tmp' = Absent
            /\ RegReturn(c, reg[c].msgs, 0)
       ELSE /\ pc' = [pc EXCEPT ![c] = "rollback"]
            /\ reg' = [reg EXCEPT ![c].msgs = Append(@, "update_failed")]
            /\ UNCHANGED << manifest, tmp, result >>
    /\ UNCHANGED << gdir, save, sbackup, localFs, settings, game_list, now, nextId,
                    nsync, server_path >>

\* os.rename(games_json_temp_path, self.games_json_path): games.json becomes
\* the temp file; it raises when the temp file is gone.  After it the
\* handler has nothing left to do ("3. Save Local Path" is an empty comment)
RegRename(c, fault) ==
    /\ pc[c] = "rename"
    /\ IF fault = "none" /\ tmp.kind # "absent"
       THEN /\ manifest' = tmp
            /\ tmp' = Absent
            /\ RegReturn(c, reg[c].msgs, 0)
       ELSE /\ pc' = [pc EXCEPT ![c] = "rollback"]
            /\ reg' = [reg EXCEPT ![c].msgs = Append(@, "update_failed")]
            /\ UNCHANGED << manifest, tmp, result >>
    /\ UNCHANGED << gdir, save, sbackup, localFs, settings, game_list, now, nextId,
                    nsync, server_path >>

\* RegRollbackDup without the rmtree: the duplicate branch only returns
RegRollbackDup_NoRmtree(c, fault) ==
    /\ pc[c] = "rollback_dup"
    /\ RegReturn(c, reg[c].msgs, 0)
    /\ UNCHANGED << manifest, tmp, gdir, save, sbackup, localFs, settings, game_list,
                    now, nextId, nsync, server_path >>

\* shutil.rmtree(game_server_dir) of the duplicate branch; when it raises,
\* `except Exception` catches it
RegRollbackDup(c, fault) ==
    /\ pc[c] = "rollback_dup"
    /\ IF fault = "none"
       THEN /\ gdir' = [gdir EXCEPT ![reg[c].id] = NoDirs]
            /\ RegReturn(c, reg[c].msgs, 1)
       ELSE /\ \E d \in RmtreeFailStates(gdir[reg[c].id]) :
                    gdir' = [gdir EXCEPT ![reg[c].id] = d]
            /\ pc' = [pc EXCEPT ![c] = "rollback"]
            /\ reg' = [reg EXCEPT ![c].msgs = Append(@, "update_failed"),
                                  ![c].rmtrees = 1]
            /\ UNCHANGED result
    /\ UNCHANGED << manifest, tmp, save, sbackup, localFs, settings, game_list, now,
                    nextId, nsync, server_path >>

\* shutil.rmtree(game_server_dir) of the except clause
RegRollback(c, fault) ==
    /\ pc[c] = "rollback"
    /\ IF fault = "none"
       THEN /\ gdir' = [gdir EXCEPT ![reg[c].id] = NoDirs]
            /\ RegReturn(c, reg[c].msgs, reg[c].rmtrees + 1)
       ELSE /\ \E d \in RmtreeFailStates(gdir[reg[c].id]) :
                    gdir' = [gdir EXCEPT ![reg[c].id] = d]
            /\ RegReturn(c, Append(reg[c].msgs, "rollback_failed"), reg[c].rmtrees + 1)
    /\ UNCHANGED << manifest, tmp, save, sbackup, localFs, settings, game_list, now,
                    nextId, nsync, server_path >>

\* ------------------------------------------------ MainWindow.set_local_path
\* the user picks a local directory for the selected game; the map is saved
\* and load_games_from_json reloads the list
SetLocalPath(g, fault) ==
    /\ pc[ThisPC] = "idle"
    /\ g \in ListedIds
    /\ local_game_paths' = local_game_paths \cup {g}
    /\ game_list' = ListedEntries(manifest, fault)
    /\ result' = [result EXCEPT ![ThisPC] =
                    Result("set_path", << LoadOutcome(manifest, fault) >>, g, FALSE)]
    /\ UNCHANGED << serverFs, localFs, show_warning, now, nextId, pc, reg, nsync,
                    server_path >>

\* --------------------------------------------------------- the environment
\* the game writes its saves into its local save directory
LocalEdit(g, d) ==
    /\ pc[ThisPC] = "idle"
    /\ g \in local_game_paths
    /\ local[g] # d
    /\ local' = [local EXCEPT ![g] = d]
    /\ UNCHANGED << serverFs, lbackup, settings, game_list, now, nextId, pc, reg,
                    result, nsync, server_path >>

\* datetime.datetime.now(), read as a timestamp of one-second resolution:
\* the second of the previous reading, or a later one
Timestamps == { t \in Times : t >= now }

\* --------------------------------------------- _show_overwrite_warning
\* TRUE when the dialog is shown; the checkbox is saved whatever the button
Prompted == show_warning
AfterPrompt(dontShow) == IF show_warning /\ dontShow THEN FALSE ELSE show_warning
Confirmed(ok) == ~show_warning \/ ok

\* NotConfigured that lets every game through
NotConfigured_Never(g) == FALSE

\* local_path_str = self.local_game_paths.get(game_id); if not local_path_str
NotConfigured(g) == g \notin local_game_paths

\* the inputs of a sync that are read: the buttons of a dialog that is shown,
\* the progress of a copy or a clearing that raises
PartialFaults == {"copy", "backup", "clear"}
Buttons == IF show_warning THEN BOOLEAN ELSE {TRUE}
Checkbox == IF show_warning THEN BOOLEAN ELSE {FALSE}
Progress(fault) == IF fault \in PartialFaults THEN SUBSET FileNames ELSE {FileNames}

\* ---------------------------------------------------- MainWindow.upload_save
UploadFaults == {"none", "iterdir", "move", "mkdir", "copy"}

\* (Moved_Replaces: a move that replaces an existing backup/<ts>)
\* shutil.move(save_data, backup/<ts>): a rename to backup/<ts>, or, when
\* that directory exists, to backup/<ts>/save_data; it raises when backup/
\* is missing or backup/<ts>/save_data exists
MoveRaises(d, snap) == ~d.backup \/ (snap.ex /\ snap.nested)
Moved_Replaces(files, snap) ==
    [ex |-> TRUE, files |-> files, nested |-> FALSE, nfiles |-> EmptyDir]

Moved(files, snap) ==
    IF snap.ex
    THEN [snap EXCEPT !.nested = TRUE, !.nfiles = files]
    ELSE [ex |-> TRUE, files |-> files, nested |-> FALSE, nfiles |-> EmptyDir]

\* the try block of upload_save for game directories d, server files sv,
\* snapshot snap of this second and local files lc, when the step `fault`
\* raises, and copytree got as far as `done`: what is left, and the outcome
UploadTry(d, sv, snap, lc, fault, done) ==
    IF fault = "iterdir" \/ ~d.save
    THEN [d |-> d, sv |-> sv, snap |-> snap, out |-> "upload_failed"]
    ELSE IF IsEmpty(sv)
    THEN \* nothing to back up
         IF fault = "copy"
         THEN [d |-> d, sv |-> CopyTree(lc, sv, done), snap |-> snap, out |-> "upload_failed"]
         ELSE [d |-> d, sv |-> CopyTree(lc, sv, FileNames), snap |-> snap,
               out |-> "upload_complete"]
    ELSE IF fault = "move" \/ MoveRaises(d, snap)
    THEN [d |-> d, sv |-> sv, snap |-> snap, out |-> "upload_failed"]
    ELSE IF fault = "mkdir"
    THEN [d |-> [d EXCEPT !.save = FALSE], sv |-> EmptyDir, snap |-> Moved(sv, snap),
          out |-> "upload_failed"]
    ELSE IF fault = "copy"
    THEN [d |-> d, sv |-> CopyTree(lc, EmptyDir, done), snap |-> Moved(sv, snap),
          out |-> "upload_failed"]
    ELSE [d |-> d, sv |-> CopyTree(lc, EmptyDir, FileNames), snap |-> Moved(sv, snap),
          out |-> "upload_complete"]

\* the handler, for the selected game g
UploadSave(g, ok, dontShow, ts, fault, done) ==
    /\ pc[ThisPC] = "idle"
    /\ ~ok => fault = "none"
    /\ g \in ListedIds
    /\ IF NotConfigured(g)
       THEN /\ result' = [result EXCEPT ![ThisPC] =
                            Result("upload", << "not_configured" >>, g, FALSE)]
            /\ UNCHANGED << gdir, save, sbackup, show_warning, nsync, now >>
       ELSE IF ~Confirmed(ok)
       THEN /\ result' = [result EXCEPT ![ThisPC] = Result("upload", << >>, g, Prompted)]
            /\ show_warning' = AfterPrompt(dontShow)
            /\ UNCHANGED << gdir, save, sbackup, nsync, now >>
       ELSE /\ nsync < MaxSyncs
            /\ nsync' = nsync + 1
            /\ now' = ts
            /\ show_warning' = AfterPrompt(dontShow)
            /\ \E r \in {UploadTry(gdir[g], save[g], sbackup[g][ts], local[g], fault, done)} :
                  /\ gdir' = [gdir EXCEPT ![g] = r.d]
                  /\ save' = [save EXCEPT ![g] = r.sv]
                  /\ sbackup' = [sbackup EXCEPT ![g][ts] = r.snap]
                  /\ result' = [result EXCEPT ![ThisPC] =
                                    Result("upload", << r.out >>, g, Prompted)]
    /\ UNCHANGED << manifest, tmp, localFs, local_game_paths, game_list, nextId,
                    pc, reg, server_path >>

\* -------------------------------------------------- MainWindow.download_save
DownloadFaults == {"none", "mkdir", "iterdir", "backup", "clear", "copy"}

\* Cleared that removes nothing
Cleared_KeepsFiles(files, done) == files

\* _clear_directory_contents that removed the files in `done`
Cleared(files, done) == [f \in FileNames |-> IF f \in done THEN NoFile ELSE files[f]]

\* the try block of download_save, as UploadTry: the local backup of this
\* second lsnap, the local files lc, the server save_data (d.save, sv)
DownloadTry(d, sv, lsnap, lc, fault, done) ==
    IF fault = "mkdir"
    THEN [lsnap |-> lsnap, lc |-> lc, out |-> "download_failed"]
    ELSE LET made == [lsnap EXCEPT !.ex = TRUE]
             kept == [made EXCEPT !.files = CopyTree(lc, @, FileNames)]
         IN IF fault = "iterdir"
            THEN [lsnap |-> made, lc |-> lc, out |-> "download_failed"]
            ELSE IF IsEmpty(lc)
            THEN IF ~d.save
                 THEN [lsnap |-> made, lc |-> lc, out |-> "download_failed"]
                 ELSE IF fault = "copy"
                 THEN [lsnap |-> made, lc |-> CopyTree(sv, lc, done),
                       out |-> "download_failed"]
                 ELSE [lsnap |-> made, lc |-> CopyTree(sv, lc, FileNames),
                       out |-> "download_complete"]
            ELSE IF fault = "backup"
            THEN [lsnap |-> [made EXCEPT !.files = CopyTree(lc, @, done)], lc |-> lc,
                  out |-> "download_failed"]
            ELSE IF fault = "clear"
            THEN [lsnap |-> kept, lc |-> Cleared(lc, done), out |-> "download_failed"]
            ELSE IF ~d.save
            THEN [lsnap |-> kept, lc |-> Cleared(lc, FileNames), out |-> "download_failed"]
            ELSE IF fault = "copy"
            THEN [lsnap |-> kept, lc |-> CopyTree(sv, Cleared(lc, FileNames), done),
                  out |-> "download_failed"]
            ELSE [lsnap |-> kept, lc |-> CopyTree(sv, Cleared(lc, FileNames), FileNames),
                  out |-> "download_complete"]

DownloadSave(g, ok, dontShow, ts, fault, done) ==
    /\ pc[ThisPC] = "idle"
    /\ ~ok => fault = "none"
    /\ g \in ListedIds
    /\ IF NotConfigured(g)
       THEN /\ result' = [result EXCEPT ![ThisPC] =
                            Result("download", << "not_configured" >>, g, FALSE)]
            /\ UNCHANGED << local, lbackup, show_warning, nsync, now >>
       ELSE IF ~Confirmed(ok)
       THEN /\ result' = [result EXCEPT ![ThisPC] = Result("download", << >>, g, Prompted)]
            /\ show_warning' = AfterPrompt(dontShow)
            /\ UNCHANGED << local, lbackup, nsync, now >>
       ELSE /\ nsync < MaxSyncs
            /\ nsync' = nsync + 1
            /\ now' = ts
            /\ show_warning' = AfterPrompt(dontShow)
            /\ \E r \in {DownloadTry(gdir[g], save[g], lbackup[g][ts], local[g], fault, done)} :
                  /\ local' = [local EXCEPT ![g] = r.lc]
                  /\ lbackup' = [lbackup EXCEPT ![g][ts] = r.lsnap]
                  /\ result' = [result EXCEPT ![ThisPC] =
                                    Result("download", << r.out >>, g, Prompted)]
    /\ UNCHANGED << serverFs, local_game_paths, game_list, nextId, pc, reg,
                    server_path >>

\* ------------------------------------------------------------ specification
Step(c) ==
    \/ Launch(c)
    \/ \E fault \in ReadFaults : MainInit(c, fault)
    \/ Quit(c)
    \/ Crash(c)
    \/ SetupExists(c)
    \/ \E fault \in ReadFaults : SetupOpen(c, fault)
    \/ \E fault \in ReadFaults : SetupDump(c, fault)
    \/ \E fault \in ReadFaults : ConnectExisting(c, fault)
    \/ \E name \in Names : RegStart(c, name)
    \/ \E fault \in Faults : RegMkSave(c, fault)
    \/ \E fault \in Faults : RegMkBackup(c, fault)
    \/ \E fault \in Faults : RegRead(c, fault)
    \/ \E fault \in Faults : RegOpenTmp(c, fault)
    \/ \E fault \in Faults : RegDumpTmp(c, fault)
    \/ \E fault \in Faults : RegRename(c, fault)
    \/ \E fault \in Faults : RegRollbackDup(c, fault)
    \/ \E fault \in Faults : RegRollback(c, fault)
    \/ \E g \in Ids, fault \in ReadFaults : c = ThisPC /\ SetLocalPath(g, fault)

Sync ==
    \/ \E g \in Ids, d \in SaveStates : LocalEdit(g, d)
    \/ \E g \in Ids, ok \in Buttons, dontShow \in Checkbox, ts \in Timestamps,
          fault \in UploadFaults : \E done \in Progress(fault) :
            UploadSave(g, ok, dontShow, ts, fault, done)
    \/ \E g \in Ids, ok \in Buttons, dontShow \in Checkbox, ts \in Timestamps,
          fault \in DownloadFaults : \E done \in Progress(fault) :
            DownloadSave(g, ok, dontShow, ts, fault, done)

Next == Step(ThisPC)

Spec == Init /\ [][Next]_vars

\* ------------------------------------------------- the sync specification
\* The server after setup and the registration of "Celeste", with or
\* without a save that another PC uploaded; this PC's window open with the
\* list loaded, with or without a local path for the game, the game with or
\* without saves.
InitSync ==
    /\ manifest = Catalog(<< Entry(1, "Celeste") >>)
    /\ tmp = Absent
    /\ gdir = [i \in Ids |-> IF i = 1 THEN AllDirs ELSE NoDirs]
    /\ \E d \in SaveStates \cup {EmptyDir} :
            save = [i \in Ids |-> IF i = 1 THEN d ELSE EmptyDir]
    /\ sbackup = [i \in Ids |-> [t \in Times |-> NoSnap]]
    /\ \E d \in SaveStates \cup {EmptyDir} :
            local = [i \in Ids |-> IF i = 1 THEN d ELSE EmptyDir]
    /\ lbackup = [i \in Ids |-> [t \in Times |-> NoLSnap]]
    /\ local_game_paths \in {{}, {1}}
    /\ game_list = manifest.games
    /\ show_warning = TRUE
    /\ now = 1
    /\ nextId = 2
    /\ pc = [c \in Clients |-> IF c = ThisPC THEN "idle" ELSE "stopped"]
    /\ reg = [c \in Clients |-> NoReg]
    /\ result = [c \in Clients |-> NoResult]
    /\ nsync = 0
    /\ server_path = {ThisPC}

SpecSync == InitSync /\ [][Sync]_vars

\* ------------------------------------------------- the load specification
\* A server folder whose games.json holds any of the sample contents (other
\* tools and other versions write it too), this PC configured for it, the
\* process not started or the window about to load the list.
MaxEntries == 2     \* records in a sample games.json
NotDict == [dict |-> FALSE, hasId |-> FALSE, id |-> 0, hasName |-> FALSE, name |-> ""]
SampleEntries ==
    { Entry(1, "Celeste"),
      [Entry(0, "Hades") EXCEPT !.hasId = FALSE],
      [Entry(2, "") EXCEPT !.hasName = FALSE],
      NotDict }
SampleLists ==
    UNION { [1..n -> SampleEntries] : n \in 0..MaxEntries }
ManifestSamples ==
    { Absent, Garbage, [kind |-> "nonobject", games |-> NoGames],
      [kind |-> "nogames", games |-> NoGames], [kind |-> "notlist", games |-> NoGames] }
    \cup { Catalog(gs) : gs \in SampleLists }

\* the ids of the records of a file
IdsIn(file) ==
    { file.games[k].id : k \in { j \in DOMAIN file.games : file.games[j].hasId } }

InitLoad ==
    /\ manifest \in ManifestSamples
    /\ tmp = Absent
    /\ gdir = [i \in Ids |-> IF i \in IdsIn(manifest) THEN AllDirs ELSE NoDirs]
    /\ save = [i \in Ids |-> EmptyDir]
    /\ sbackup = [i \in Ids |-> [t \in Times |-> NoSnap]]
    /\ local = [i \in Ids |-> EmptyDir]
    /\ lbackup = [i \in Ids |-> [t \in Times |-> NoLSnap]]
    /\ local_game_paths = {}
    /\ game_list = << >>
    /\ show_warning = TRUE
    /\ now = 1
    /\ nextId = 3
    /\ pc \in [Clients -> {"stopped", "starting"}]
    /\ pc["pc2"] = "stopped"
    /\ reg = [c \in Clients |-> NoReg]
    /\ result = [c \in Clients |-> NoResult]
    /\ nsync = 0
    /\ server_path = {ThisPC}

Load ==
    \/ Launch(ThisPC)
    \/ \E fault \in ReadFaults : MainInit(ThisPC, fault)
    \/ Quit(ThisPC)
    \/ \E g \in Ids, fault \in ReadFaults : SetLocalPath(g, fault)

SpecLoad == InitLoad /\ [][Load]_vars

\* ---------------------------------------------- the entries specification
\* A server whose games.json is an object with a games list of any sample
\* entries, this PC's window about to load the list; then registrations.
\* uuid4 gives an id that no record and no directory of the server has.
FreshId(file) ==
    CHOOSE i \in 1..(MaxGames + 1) :
        /\ i \notin IdsIn(file)
        /\ \A j \in 1..(i - 1) : j \in IdsIn(file)

InitEntries ==
    /\ manifest \in { Catalog(gs) : gs \in SampleLists }
    /\ tmp = Absent
    /\ gdir = [i \in Ids |-> IF i \in IdsIn(manifest) THEN AllDirs ELSE NoDirs]
    /\ save = [i \in Ids |-> EmptyDir]
    /\ sbackup = [i \in Ids |-> [t \in Times |-> NoSnap]]
    /\ local = [i \in Ids |-> EmptyDir]
    /\ lbackup = [i \in Ids |-> [t \in Times |-> NoLSnap]]
    /\ local_game_paths = {}
    /\ game_list = << >>
    /\ show_warning = TRUE
    /\ now = 1
    /\ nextId = FreshId(manifest)
    /\ pc = [c \in Clients |-> IF c = ThisPC THEN "starting" ELSE "stopped"]
    /\ reg = [c \in Clients |-> NoReg]
    /\ result = [c \in Clients |-> NoResult]
    /\ nsync = 0
    /\ server_path = {ThisPC}

Entries ==
    \/ \E fault \in ReadFaults : MainInit(ThisPC, fault)
    \/ \E name \in Names : nextId \notin IdsIn(manifest) /\ RegStart(ThisPC, name)
    \/ \E fault \in Faults : RegMkSave(ThisPC, fault)
    \/ \E fault \in Faults : RegMkBackup(ThisPC, fault)
    \/ \E fault \in Faults : RegRead(ThisPC, fault)
    \/ \E fault \in Faults : RegOpenTmp(ThisPC, fault)
    \/ \E fault \in Faults : RegDumpTmp(ThisPC, fault)
    \/ \E fault \in Faults : RegRename(ThisPC, fault)
    \/ \E fault \in Faults : RegRollbackDup(ThisPC, fault)
    \/ \E fault \in Faults : RegRollback(ThisPC, fault)

SpecEntries == InitEntries /\ [][Entries]_vars

\* ------------------------------------------------- the race specification
\* Two PCs connected to the same server folder, which holds an empty
\* catalog, both with the main window open; each registers games, the
\* filesystem steps of the two interleaved in any order.
InitRace ==
    /\ manifest = Catalog(NoGames)
    /\ tmp = Absent
    /\ gdir = [i \in Ids |-> NoDirs]
    /\ save = [i \in Ids |-> EmptyDir]
    /\ sbackup = [i \in Ids |-> [t \in Times |-> NoSnap]]
    /\ local = [i \in Ids |-> EmptyDir]
    /\ lbackup = [i \in Ids |-> [t \in Times |-> NoLSnap]]
    /\ local_game_paths = {}
    /\ game_list = << >>
    /\ show_warning = TRUE
    /\ now = 1
    /\ nextId = 1
    /\ pc = [c \in Clients |-> "idle"]
    /\ reg = [c \in Clients |-> NoReg]
    /\ result = [c \in Clients |-> NoResult]
    /\ nsync = 0
    /\ server_path = Clients

Race ==
    \E c \in Clients :
        \/ \E name \in Names : RegStart(c, name)
        \/ \E fault \in Faults : RegMkSave(c, fault)
        \/ \E fault \in Faults : RegMkBackup(c, fault)
        \/ \E fault \in Faults : RegRead(c, fault)
        \/ \E fault \in Faults : RegOpenTmp(c, fault)
        \/ \E fault \in Faults : RegDumpTmp(c, fault)
        \/ \E fault \in Faults : RegRename(c, fault)
        \/ \E fault \in Faults : RegRollbackDup(c, fault)
        \/ \E fault \in Faults : RegRollback(c, fault)

SpecRace == InitRace /\ [][Race]_vars

\* ============================================================== the claims
Range(q) == { q[k] : k \in DOMAIN q }
Shown(c, msg) == msg \in Range(result[c].msgs)

\* the manifest holds a record with this id
InManifest(g) ==
    /\ manifest.kind = "catalog"
    /\ \E k \in DOMAIN manifest.games : manifest.games[k].hasId /\ manifest.games[k].id = g

\* C1: registration is all-or-nothing.  After add_new_game returns, with
\* success or after a failure at any step, either the manifest holds the new
\* record and <id>/save_data and <id>/backup exist, or the manifest does not
\* hold it and no directory <id>/ exists.
C1_AllOrNothing ==
    \A c \in Clients :
        result[c].op = "register" =>
            \/ /\ InManifest(result[c].game)
               /\ gdir[result[c].game].save
               /\ gdir[result[c].game].backup
            \/ /\ ~InManifest(result[c].game)
               /\ ~gdir[result[c].game].root

\* C2: in every reachable state, also between two filesystem steps and after
\* a step that failed, games.json, if present, holds a complete valid
\* catalog {"games": [...]}.
C2_ManifestValid == manifest.kind \in {"absent", "catalog"}

\* C3: starting from an empty catalog, after any sequence of registrations
\* by a single client no two records of the manifest share an id and no two
\* share a name under case-insensitive comparison.
C3_Unique ==
    \A j, k \in DOMAIN manifest.games :
        j # k => /\ manifest.games[j].id # manifest.games[k].id
                 /\ Lower(manifest.games[j].name) # Lower(manifest.games[k].name)

\* a registration has returned and the manifest holds two records
C3_Witness ==
    /\ manifest.kind = "catalog"
    /\ Len(manifest.games) >= 2
    /\ result[ThisPC].op = "register"

\* add_new_game has returned on client c after the Duplicate Game warning
DupShown(c) == result[c].op = "register" /\ Shown(c, "duplicate")
\* add_new_game is running on client c and has shown the warning
InDup(c) == "duplicate" \in Range(reg[c].msgs)
SameName(c) ==
    { k \in DOMAIN manifest.games : Lower(manifest.games[k].name) = Lower(result[c].name) }

SyncGame == result[ThisPC].game'
SyncTs == now'
SyncStep(op, out) ==
    /\ nsync' = nsync + 1
    /\ result'[ThisPC].op = op
    /\ result'[ThisPC].msgs = << out >>
\* every file of prev is in d, with the same content
Contains(d, prev) == \A f \in FileNames : prev[f] # NoFile => d[f] = prev[f]

\* C5, as stated: after a successful upload (download) whose server
\* save_data (local save directory) was not empty, its previous files are
\* directly under backup/<timestamp>/ (<local_backup_root>/<id>/<timestamp>/).
C5_DirectlyUnder ==
    [][/\ SyncStep("upload", "upload_complete") /\ ~IsEmpty(save[SyncGame]) =>
            /\ sbackup'[SyncGame][SyncTs].ex
            /\ Contains(sbackup'[SyncGame][SyncTs].files, save[SyncGame])
       /\ SyncStep("download", "download_complete") /\ ~IsEmpty(local[SyncGame]) =>
            /\ lbackup'[SyncGame][SyncTs].ex
            /\ Contains(lbackup'[SyncGame][SyncTs].files, local[SyncGame])]_vars

\* C5, amended: the previous files are directly under the timestamp
\* directory, except for an upload whose backup/<timestamp>/ existed when it
\* started (an upload of the same second): then they are under
\* backup/<timestamp>/save_data/, and what was directly under
\* backup/<timestamp>/ stays as it was.
C5_BackupBeforeOverwrite ==
    [][/\ SyncStep("upload", "upload_complete") /\ ~IsEmpty(save[SyncGame]) =>
            IF sbackup[SyncGame][SyncTs].ex
            THEN /\ sbackup'[SyncGame][SyncTs].nested
                 /\ sbackup'[SyncGame][SyncTs].nfiles = save[SyncGame]
                 /\ sbackup'[SyncGame][SyncTs].files = sbackup[SyncGame][SyncTs].files
            ELSE /\ sbackup'[SyncGame][SyncTs].ex
                 /\ sbackup'[SyncGame][SyncTs].files = save[SyncGame]
       /\ SyncStep("download", "download_complete") /\ ~IsEmpty(local[SyncGame]) =>
            /\ lbackup'[SyncGame][SyncTs].ex
            /\ Contains(lbackup'[SyncGame][SyncTs].files, local[SyncGame])]_vars

\* an upload has moved a save into the backup directory of an earlier
\* upload of the same second
C5_Witness ==
    /\ result[ThisPC].msgs = << "upload_complete" >>
    /\ sbackup[result[ThisPC].game][now].nested
    /\ ~IsEmpty(sbackup[result[ThisPC].game][now].nfiles)
    /\ ~IsEmpty(sbackup[result[ThisPC].game][now].files)

\* C6: after a successful upload the server save_data holds exactly the
\* files of the local save directory, and after a successful download the
\* local save directory holds exactly the files of the server save_data.
C6_ExactCopy ==
    [][/\ SyncStep("upload", "upload_complete") =>
            /\ gdir'[SyncGame].save
            /\ save'[SyncGame] = local[SyncGame]
            /\ local'[SyncGame] = local[SyncGame]
       /\ SyncStep("download", "download_complete") =>
            /\ local'[SyncGame] = save[SyncGame]
            /\ save'[SyncGame] = save[SyncGame]]_vars

\* a download replaced local files that the server does not have
C6_Witness ==
    /\ result[ThisPC].msgs = << "download_complete" >>
    /\ local[result[ThisPC].game] = save[result[ThisPC].game]
    /\ \E f \in FileNames :
        /\ local[result[ThisPC].game][f] = NoFile
        /\ lbackup[result[ThisPC].game][now].files[f] # NoFile

\* C7: a sync whose directory to overwrite is empty when it starts (server
\* save_data for an upload, the local save directory for a download)
\* creates no backup artifact, on the server or under <local_backup_root>.
C7_EmptySourceNoArtifact ==
    [][/\ nsync' = nsync + 1 /\ result'[ThisPC].op = "upload" /\ IsEmpty(save[SyncGame]) =>
            sbackup' = sbackup /\ lbackup' = lbackup
       /\ nsync' = nsync + 1 /\ result'[ThisPC].op = "download" /\ IsEmpty(local[SyncGame]) =>
            sbackup' = sbackup /\ lbackup' = lbackup]_vars

\* C8: upload or download for a listed game without a local path shows
\* "Local path not set", shows no confirmation, and changes nothing on the
\* server, in the local backups, the local files or the settings.
C8_UnconfiguredBlocksSync ==
    [][\A g \in ListedIds \ local_game_paths :
        \A ok \in BOOLEAN, dontShow \in BOOLEAN, ts \in Times,
           fault \in UploadFaults \cup DownloadFaults, done \in SUBSET FileNames :
            \/ UploadSave(g, ok, dontShow, ts, fault, done)
            \/ DownloadSave(g, ok, dontShow, ts, fault, done)
            => /\ UNCHANGED << serverFs, localFs, settings, nsync >>
               /\ result'[ThisPC].msgs = << "not_configured" >>
               /\ ~result'[ThisPC].prompted]_vars

\* an upload was refused for a game without a local path
C8_Witness ==
    /\ result[ThisPC].op = "upload"
    /\ result[ThisPC].msgs = << "not_configured" >>
    /\ result[ThisPC].game \notin local_game_paths

\* C10: after any sequence of registrations, uploads and downloads, failed
\* ones included, <id>/save_data and <id>/backup exist for every game of the
\* manifest.
C10_DirsOfEveryGame ==
    \A g \in Ids : InManifest(g) => gdir[g].save /\ gdir[g].backup

\* ---- loading: why a load fails
Cause(file, fault) ==
    IF fault = "permission" THEN "permission"
    ELSE IF fault = "io" THEN "io"
    ELSE IF file.kind = "absent" THEN "missing"
    ELSE IF file.kind = "garbage" THEN "not_json"
    ELSE IF file.kind \in {"nonobject", "nogames", "notlist"} THEN "schema"
    ELSE "none"

\* C9: load_games_from_json reports a distinct kind of error for each cause
\* of failure (not valid JSON; root not an object or games not a list; file
\* missing; permission failure; another I/O failure), that is, the error a
\* failed load reports is reported for no other cause; and a failed load
\* lists no game.
C9_DistinctErrorKinds ==
    [][\A fault \in ReadFaults :
        MainInit(ThisPC, fault) /\ Cause(manifest, fault) # "none" =>
            /\ game_list' = << >>
            /\ \A file2 \in ManifestSamples, fault2 \in ReadFaults :
                  Cause(file2, fault2) # Cause(manifest, fault)
                  => LoadOutcome(file2, fault2) # result'[ThisPC].msgs[1]]_vars

\* ---- registration: the step with which add_new_game returns on this PC
RegReturns == pc[ThisPC] \in Running /\ pc'[ThisPC] = "idle" /\ result'[ThisPC].op = "register"
RegSucceeds == RegReturns /\ result'[ThisPC].msgs = << >> /\ InManifest(result[ThisPC].game)'

\* C11: when add_new_game returns with success (directories created, manifest
\* updated), the local path map holds the new id, and the game list has been
\* reloaded and shows the new game, so upload and download are available for
\* it without set_local_path.
C11_RegisteredIsConfigured ==
    [][RegSucceeds =>
            /\ result'[ThisPC].game \in local_game_paths'
            /\ game_list' = ListedEntries(manifest', "none")
            /\ result'[ThisPC].game \in { game_list'[k].id : k \in DOMAIN game_list' }]_vars

\* ---- failed syncs
\* the snapshot of this upload holds the whole previous server save_data
UploadBackedUp ==
    IF sbackup[SyncGame][SyncTs].ex
    THEN /\ sbackup'[SyncGame][SyncTs].nested
         /\ sbackup'[SyncGame][SyncTs].nfiles = save[SyncGame]
    ELSE /\ sbackup'[SyncGame][SyncTs].ex
         /\ sbackup'[SyncGame][SyncTs].files = save[SyncGame]
\* the local backup of this download holds the whole previous local directory
DownloadBackedUp ==
    /\ lbackup'[SyncGame][SyncTs].ex
    /\ Contains(lbackup'[SyncGame][SyncTs].files, local[SyncGame])

\* C12: a failing step of upload or download aborts the later steps, and the
\* overwritten directory is emptied, and the new content copied into it, only
\* after its backup succeeded.  So after a failed upload the server save_data
\* is as it was, or it was empty and only the copy ran, or its whole previous
\* content is in the backup snapshot; after a failed download the local
\* directory is as it was or its whole previous content is in the local
\* backup.  A failed sync touches only its own side and its own snapshot.
C12_FailureKeepsPrevious ==
    [][/\ SyncStep("upload", "upload_failed") =>
            /\ \/ UNCHANGED << gdir, save, sbackup >>
               \/ IsEmpty(save[SyncGame]) /\ UNCHANGED << gdir, sbackup >>
               \/ UploadBackedUp
            /\ UNCHANGED << localFs, manifest, tmp >>
            /\ \A t \in Times \ {SyncTs} : sbackup'[SyncGame][t] = sbackup[SyncGame][t]
       /\ SyncStep("download", "download_failed") =>
            /\ \/ local'[SyncGame] = local[SyncGame]
               \/ DownloadBackedUp
            /\ UNCHANGED serverFs
            /\ \A t \in Times \ {SyncTs} : lbackup'[SyncGame][t] = lbackup[SyncGame][t]]_vars

\* a download failed after it had removed a.txt: the local directory has
\* lost a file that its backup holds, and the server's a.txt is not there
C12_Witness ==
    /\ result[ThisPC].msgs = << "download_failed" >>
    /\ local[result[ThisPC].game]["a.txt"] = NoFile
    /\ local[result[ThisPC].game]["b.txt"] # NoFile
    /\ lbackup[result[ThisPC].game][now].files["a.txt"] # NoFile
    /\ lbackup[result[ThisPC].game][now].files["b.txt"] # NoFile

\* add_new_game has returned on client c after an error or a warning
FailedReg(c) == result[c].op = "register" /\ result[c].msgs # << >>

\* C13: in a failing run of registration shutil.rmtree of the new <id>/ is
\* called exactly once: not twice, and not zero times when a directory of
\* the attempt is there (on the duplicate path and on the manifest failure
\* path alike); and a reported rollback failure comes with the report of the
\* failure that led to the rollback.
C13_RollbackExactlyOnce ==
    \A c \in Clients :
        FailedReg(c) =>
            /\ result[c].rmtrees <= 1
            /\ gdir[result[c].game].root => result[c].rmtrees = 1
            /\ Shown(c, "rollback_failed") =>
                    Shown(c, "update_failed") \/ Shown(c, "duplicate")

\* ---- malformed entries
\* the new name equals, in lower case, the name of no entry that has one
NonColliding(name, file) ==
    \A k \in DOMAIN file.games :
        file.games[k].hasName => Lower(file.games[k].name) # Lower(name)

\* C14: with a games.json that is an object with a games list, entries that
\* are not objects or lack id or name are skipped by every reader: a load
\* that no I/O error disturbs lists exactly the well-formed entries, in
\* order, and a registration with a non-colliding name whose read of
\* games.json no I/O error disturbs goes on to write the list with every
\* existing entry kept and the new record appended.
C14_MalformedEntriesSkipped ==
    [][/\ MainInit(ThisPC, "none") =>
            /\ result'[ThisPC].msgs = << "ok" >>
            /\ game_list' = SelectSeq(manifest.games, WellFormed)
       /\ RegRead(ThisPC, "none") /\ NonColliding(reg[ThisPC].name, manifest) =>
            /\ pc'[ThisPC] = "open_tmp"
            /\ reg'[ThisPC].data =
                    Catalog(Append(manifest.games,
                                   Entry(reg[ThisPC].id, reg[ThisPC].name)))]_vars

\* ---- two clients
\* add_new_game has returned on client c, and nothing was shown
Registered(c) == result[c].op = "register" /\ result[c].msgs = << >>

\* C15: with two clients registering against the same server root, no step
\* detects that games.json changed since it was read: the rename of a client
\* whose temp file is there succeeds and makes games.json that file,
\* whatever games.json held, and a registration that reported success keeps
\* its directories whether or not the manifest holds its record.  So a state
\* is reachable (C15_Witness) where both registrations, of different names,
\* reported success, the manifest holds one of the two records and the
\* directories of both games exist.
C15_LastWriterWins ==
    /\ [](\A c \in Clients :
            Registered(c) => gdir[result[c].game].save /\ gdir[result[c].game].backup)
    /\ [][\A c \in Clients :
            RegRename(c, "none") /\ tmp.kind # "absent" =>
                /\ manifest' = tmp
                /\ Registered(c)']_vars

\* both clients reported success for different names, one record is in the
\* manifest, the directories of both games exist
C15_Witness ==
    /\ Registered("pc1") /\ Registered("pc2")
    /\ Lower(result["pc1"].name) # Lower(result["pc2"].name)
    /\ result["pc1"].game # result["pc2"].game
    /\ manifest.kind = "catalog"
    /\ Len(manifest.games) = 1
    /\ InManifest(result["pc1"].game) # InManifest(result["pc2"].game)
    /\ gdir[result["pc1"].game] = AllDirs
    /\ gdir[result["pc2"].game] = AllDirs
    /\ tmp.kind = "absent"

\* ---- snapshots
\* every file of the directory `before` is in `after`, with its content
Kept(before, after) == \A f \in FileNames : before[f] # NoFile => after[f] = before[f]

\* C16: backup snapshots are immutable.  No step changes, replaces or
\* removes a file that a snapshot holds, under backup/<timestamp>/ on the
\* server (directly or in the save_data moved into it) or under
\* <local_backup_root>/<id>/<timestamp>/, syncs of the same second included.
C16_SnapshotsImmutable ==
    [][\A g \in Ids, t \in Times :
        /\ Kept(sbackup[g][t].files, sbackup'[g][t].files)
        /\ Kept(sbackup[g][t].nfiles, sbackup'[g][t].nfiles)
        /\ Kept(lbackup[g][t].files, lbackup'[g][t].files)]_vars
=============================================================================
